---- MODULE Spec2Model ----
(***************************************************************************)
(* Model of backend/main.py of coffee-finder: the POST /recommendations    *)
(* handler (validate -> fetch_nearby_cafes -> normalize_place per record   *)
(* -> sort by distance_m -> response) and the openai_pick_5 selector.      *)
(*                                                                         *)
(* JSON values of the provider payload are tagged records of one shape, so *)
(* that "absent", null, "" and 0 stay distinct and Python truthiness is   *)
(* computed, not assumed.  Distances are in millimetres.                   *)
(***************************************************************************)
EXTENDS Integers, Sequences, FiniteSets, TLC

(* ---------------- bounds ---------------- *)
\* longest list of raw records the places provider returns
MaxPlaces == 2
\* longest candidate list handed to openai_pick_5
MaxPickPlaces == 2

(* ---------------- JSON values ---------------- *)
Absent == [k |-> "absent", s |-> "", n |-> 0]
Null == [k |-> "null", s |-> "", n |-> 0]
Str(x) == [k |-> "str", s |-> x, n |-> 0]
Num(x) == [k |-> "num", s |-> "", n |-> x]
Bool(b) == [k |-> "bool", s |-> "", n |-> IF b THEN 1 ELSE 0]

\* dict.get(key): a missing key reads as None
Get(v) == IF v.k = "absent" THEN Null ELSE v

\* dict.get(key, {}): a missing key reads as the empty dict, an explicit
\* null stays None
GetOrEmpty(o, empty) == IF o.k = "absent" THEN empty ELSE o

\* Python truthiness of a JSON value: None, "", 0 and 0.0 and False are falsy
Truthy(v) ==
    CASE v.k = "str" -> v.s # ""
      [] v.k = "num" -> v.n # 0
      [] v.k = "bool" -> v.n = 1
      [] OTHER -> FALSE

DisplayName(t) == [k |-> "obj", text |-> t]
Location(la, lo) == [k |-> "obj", latitude |-> la, longitude |-> lo]
OpeningHours(o) == [k |-> "obj", openNow |-> o]
AbsentDisplayName == [k |-> "absent", text |-> Absent]
NullDisplayName == [k |-> "null", text |-> Absent]
AbsentLocation == [k |-> "absent", latitude |-> Absent, longitude |-> Absent]
NullLocation == [k |-> "null", latitude |-> Absent, longitude |-> Absent]
AbsentOpeningHours == [k |-> "absent", openNow |-> Absent]
NullOpeningHours == [k |-> "null", openNow |-> Absent]
EmptyDisplayName == [k |-> "obj", text |-> Absent]
EmptyLocation == [k |-> "obj", latitude |-> Absent, longitude |-> Absent]
EmptyOpeningHours == [k |-> "obj", openNow |-> Absent]

(* ---------------- program constants ---------------- *)
Preference == {"study", "friendly", "best", "open", "busy"}

PREFERENCE_DICT ==
    [p \in Preference |->
        CASE p = "study" -> "Pick cafes that are good for studying"
          [] p = "friendly" -> "Pick cafes that feel welcoming/cozy"
          [] p = "best" -> "Pick the highest overall quality cafes"
          [] p = "open" -> "Pick cafes that are open right now"
          [] p = "busy" -> "Pick popular/lively cafes"]

APP_BASIC_USER == "user"
APP_BASIC_PASS == "pass"

(* ---------------- haversine_m ---------------- *)
\* haversine_m(lat1, lon1, lat2, lon2) in millimetres, for the integer-degree
\* coordinates the model uses: the values the source's formula (r = 6371000)
\* yields, rounded to the millimetre; equal entries are equal floats.
HaversineTable ==
    <<0, 0, 0, -1>> :> 111194927 @@
    <<0, 0, 0, 0>> :> 0 @@
    <<0, 0, 0, 1>> :> 111194927 @@
    <<0, 0, 1, -1>> :> 157249381 @@
    <<0, 0, 1, 0>> :> 111194927 @@
    <<0, 0, 1, 1>> :> 157249381 @@
    <<0, 0, 2, -1>> :> 248629315 @@
    <<0, 0, 2, 0>> :> 222389853 @@
    <<0, 0, 2, 1>> :> 248629315 @@
    <<1, 0, 0, -1>> :> 157249381 @@
    <<1, 0, 0, 0>> :> 111194927 @@
    <<1, 0, 0, 1>> :> 157249381 @@
    <<1, 0, 1, -1>> :> 111177991 @@
    <<1, 0, 1, 0>> :> 0 @@
    <<1, 0, 1, 1>> :> 111177991 @@
    <<1, 0, 2, -1>> :> 157225432 @@
    <<1, 0, 2, 0>> :> 111194927 @@
    <<1, 0, 2, 1>> :> 157225432

haversine_m(lat1, lon1, lat2, lon2) == HaversineTable[<<lat1, lon1, lat2, lon2>>]

(* ---------------- normalize_place ---------------- *)
NoCafe ==
    [place_id |-> Null, name |-> Null, address |-> Null, lat |-> Null,
     lng |-> Null, rating |-> Null, rating_count |-> Null, open_now |-> Null,
     price_level |-> Null, distance_m |-> 0]

ReturnNone == [kind |-> "none", cafe |-> NoCafe]
RaiseAttributeError == [kind |-> "raise", cafe |-> NoCafe]
ReturnCafe(c) == [kind |-> "cafe", cafe |-> c]

\* the required-field test of line 93, mutated to test presence, not truth:
\* a plausible repair of the zero-coordinate rejection that also lets the
\* empty string through
RequiredPresentNotNone(place_id, name, address, lat, lng) ==
    /\ place_id.k # "null" /\ name.k # "null" /\ address.k # "null"
    /\ lat.k # "null" /\ lng.k # "null"

\* line 93: place_id and name and address and lat and lng
RequiredPresent(place_id, name, address, lat, lng) ==
    /\ Truthy(place_id) /\ Truthy(name) /\ Truthy(address)
    /\ Truthy(lat) /\ Truthy(lng)

normalize_place(p, user_lat, user_lng) ==
    LET place_id == Get(p.id)
        displayName == GetOrEmpty(p.displayName, EmptyDisplayName)
    IN  IF displayName.k = "null" THEN RaiseAttributeError
        ELSE
        LET name == Get(displayName.text)
            address == Get(p.shortFormattedAddress)
            location == GetOrEmpty(p.location, EmptyLocation)
        IN  IF location.k = "null" THEN RaiseAttributeError
            ELSE
            LET lat == Get(location.latitude)
                lng == Get(location.longitude)
            IN  IF ~RequiredPresent(place_id, name, address, lat, lng)
                THEN ReturnNone
                ELSE
                LET hours == GetOrEmpty(p.currentOpeningHours, EmptyOpeningHours)
                IN  IF hours.k = "null" THEN RaiseAttributeError
                    ELSE ReturnCafe(
                        [place_id |-> place_id,
                         name |-> name,
                         address |-> address,
                         lat |-> lat,
                         lng |-> lng,
                         rating |-> Get(p.rating),
                         rating_count |-> Get(p.userRatingCount),
                         open_now |-> Get(hours.openNow),
                         price_level |-> Get(p.priceLevel),
                         distance_m |-> haversine_m(user_lat, user_lng, lat.n, lng.n)])

(* ---------------- list.sort(key = distance_m) ---------------- *)
\* insertion point of c in a sorted list when ties go BEFORE equal keys: an
\* unstable variant of the sort
InsertBeforeTies(c, sorted) ==
    LET before == SelectSeq(sorted, LAMBDA x : x.distance_m < c.distance_m)
        after == SelectSeq(sorted, LAMBDA x : x.distance_m >= c.distance_m)
    IN  before \o <<c>> \o after

\* one step of the stable sort: c goes after every element whose key is not
\* greater, so equal keys keep their order of arrival
Insert(c, sorted) ==
    LET before == SelectSeq(sorted, LAMBDA x : x.distance_m <= c.distance_m)
        after == SelectSeq(sorted, LAMBDA x : x.distance_m > c.distance_m)
    IN  before \o <<c>> \o after

RECURSIVE SortFrom(_, _)
SortFrom(rest, sorted) ==
    IF rest = <<>> THEN sorted
    ELSE SortFrom(Tail(rest), Insert(Head(rest), sorted))

\* formatted_places.sort(key=lambda x: x["distance_m"]): Python's sort is stable
sort_by_distance(xs) == SortFrom(xs, <<>>)

(* ---------------- inputs ---------------- *)
\* a record with every required field, at (la, lo)
Place(id, la, lo, full) ==
    [id |-> Str(id),
     displayName |-> DisplayName(Str("Cafe")),
     shortFormattedAddress |-> Str("1 Main St"),
     location |-> Location(Num(la), Num(lo)),
     rating |-> IF full THEN Num(4) ELSE Absent,
     userRatingCount |-> IF full THEN Num(120) ELSE Absent,
     currentOpeningHours |-> IF full THEN OpeningHours(Bool(TRUE)) ELSE AbsentOpeningHours,
     priceLevel |-> IF full THEN Str("PRICE_LEVEL_MODERATE") ELSE Absent]

BasePlace == Place("a", 1, 1, TRUE)

WellFormedPlaces ==
    { Place("a", 1, 1, TRUE), Place("a", 1, -1, TRUE), Place("a", 2, 1, TRUE),
      Place("b", 1, 1, FALSE), Place("b", 1, -1, FALSE), Place("b", 2, 1, FALSE) }

\* records on the equator or the prime meridian: every field is there
ZeroCoordinatePlaces ==
    { Place("a", 0, 1, TRUE), Place("a", 1, 0, TRUE), Place("a", 0, 0, TRUE) }

\* BasePlace with one required field absent, null or empty
DefectivePlaces ==
    { [BasePlace EXCEPT !.id = v] : v \in {Absent, Null, Str("")} }
    \cup { [BasePlace EXCEPT !.displayName = v] :
             v \in {AbsentDisplayName, NullDisplayName, DisplayName(Absent),
                    DisplayName(Null), DisplayName(Str(""))} }
    \cup { [BasePlace EXCEPT !.shortFormattedAddress = v] :
             v \in {Absent, Null, Str("")} }
    \cup { [BasePlace EXCEPT !.location = v] :
             v \in {AbsentLocation, NullLocation,
                    Location(Absent, Num(1)), Location(Null, Num(1)),
                    Location(Num(1), Absent), Location(Num(1), Null)} }

\* every required field there, the optional opening-hours object null
NullHoursPlaces == { [BasePlace EXCEPT !.currentOpeningHours = NullOpeningHours] }

RawPlaces ==
    WellFormedPlaces \cup ZeroCoordinatePlaces \cup DefectivePlaces
    \cup NullHoursPlaces

SeqsUpTo(S, n) == UNION { [1..m -> S] : m \in 0..n }

ReqLats == {0, 1, 95, -91}
ReqLngs == {0, 181, -181}
ReqPreferences == {"best", "busy", "Best", "cozy"}
ReqCredentials == { <<"user", "pass">>, <<"user", "guess">>, <<"eve", "pass">> }

Requests ==
    [lat : ReqLats, lng : ReqLngs, preference : ReqPreferences,
     credentials : ReqCredentials]

ProviderNon200Statuses == {201, 429, 503}
ProviderErrorTexts == {"RESOURCE_EXHAUSTED", "backend unavailable"}

(* ---------------- state ---------------- *)
VARIABLES
    pc,                \* position of the /recommendations handler
    req,               \* the inbound request
    reply,             \* what the places provider answered, once it has
    places,            \* fetch_nearby_cafes' return value
    idx,               \* position of the loop "for p in places" (1-based)
    formatted_places,  \* the handler's list of Cafes
    kept,              \* provider positions whose Cafe was appended (history)
    response,          \* what the caller receives
    places_calls,      \* search requests sent to the places provider (history)
    llm_calls,         \* requests sent to the language model (history)
    pick_pc,           \* position of openai_pick_5
    pick_preference,   \* its argument preference
    pick_places,       \* its argument formatted_places
    compacted_places,  \* its local list
    pick_result        \* how it ended

vars == <<pc, req, reply, places, idx, formatted_places, kept, response,
          places_calls, llm_calls, pick_pc, pick_preference, pick_places,
          compacted_places, pick_result>>

pickVars == <<pick_pc, pick_preference, pick_places, compacted_places, pick_result>>

NoReply == [kind |-> "none", status |-> 0, text |-> ""]
NoResponse ==
    [kind |-> "none", status |-> 0, detail |-> "", preference |-> "",
     count |-> 0, preview |-> <<>>]

NoPickResult ==
    [kind |-> "none", exc |-> "", rubric |-> "", asked |-> FALSE,
     output |-> <<>>, picks |-> <<>>]

\* raise HTTPException(status_code=..., detail=...)
HTTPException(status_code, detail) ==
    [kind |-> "http_exception", status |-> status_code, detail |-> detail,
     preference |-> "", count |-> 0, preview |-> <<>>]

\* the framework's answer to a request body that fails RecommendationRequest
RequestValidationError ==
    [kind |-> "validation_error", status |-> 422, detail |-> "validation error",
     preference |-> "", count |-> 0, preview |-> <<>>]

\* the framework's answer to an exception no handler catches
UnhandledException ==
    [kind |-> "unhandled_exception", status |-> 500,
     detail |-> "Internal Server Error", preference |-> "", count |-> 0,
     preview |-> <<>>]

\* the dict returned at the end of recommendations
Recommendations(preference, cafes) ==
    [kind |-> "ok", status |-> 200, detail |-> "", preference |-> preference,
     count |-> Len(cafes), preview |-> cafes]

(* ---------------- request boundary ---------------- *)
\* RecommendationRequest, widened: a latitude bound of 180 like the longitude's
RecommendationRequestLatAsLng(r) ==
    /\ r.lat >= -180 /\ r.lat <= 180
    /\ r.lng >= -180 /\ r.lng <= 180
    /\ r.preference \in Preference

\* RecommendationRequest: lat ge=-90 le=90, lng ge=-180 le=180, preference a
\* member of the Literal
RecommendationRequest(r) ==
    /\ r.lat >= -90 /\ r.lat <= 90
    /\ r.lng >= -180 /\ r.lng <= 180
    /\ r.preference \in Preference

\* require_basic_auth: both comparisons must succeed
require_basic_auth(credentials) ==
    /\ credentials[1] = APP_BASIC_USER
    /\ credentials[2] = APP_BASIC_PASS

HandlerIdle ==
    /\ reply = NoReply /\ places = <<>> /\ idx = 1
    /\ formatted_places = <<>> /\ kept = {} /\ response = NoResponse
    /\ places_calls = 0 /\ llm_calls = 0

PickIdle ==
    /\ pick_pc = "idle" /\ pick_preference = "" /\ pick_places = <<>>
    /\ compacted_places = <<>> /\ pick_result = NoPickResult

Init ==
    /\ req \in Requests
    /\ pc = "request"
    /\ HandlerIdle
    /\ PickIdle

\* the dependency raises 401 before the handler body runs
Unauthorized ==
    /\ pc = "request"
    /\ ~require_basic_auth(req.credentials)
    /\ response' = HTTPException(401, "Incorrect username or password")
    /\ pc' = "done"
    /\ UNCHANGED <<req, reply, places, idx, formatted_places, kept,
                   places_calls, llm_calls>>
    /\ UNCHANGED pickVars

\* the body does not satisfy RecommendationRequest: the handler body never runs
RejectInvalid ==
    /\ pc = "request"
    /\ require_basic_auth(req.credentials)
    /\ ~RecommendationRequest(req)
    /\ response' = RequestValidationError
    /\ pc' = "done"
    /\ UNCHANGED <<req, reply, places, idx, formatted_places, kept,
                   places_calls, llm_calls>>
    /\ UNCHANGED pickVars

\* the handler body is entered
Accept ==
    /\ pc = "request"
    /\ require_basic_auth(req.credentials)
    /\ RecommendationRequest(req)
    /\ pc' = "fetch"
    /\ UNCHANGED <<req, reply, places, idx, formatted_places, kept, response,
                   places_calls, llm_calls>>
    /\ UNCHANGED pickVars

(* ---------------- fetch_nearby_cafes ---------------- *)
\* client.post(...) under the 10 s client timeout: the search request leaves
SendSearch ==
    /\ pc = "fetch"
    /\ places_calls' = places_calls + 1
    /\ pc' = "await"
    /\ UNCHANGED <<req, reply, places, idx, formatted_places, kept, response,
                   llm_calls>>
    /\ UNCHANGED pickVars

\* a non-200 answer, retried: the request is sent again instead of failing
RaiseUpstreamRetry(status, text) ==
    /\ response' = response
    /\ pc' = "fetch"

\* a non-200 answer, reported with a fixed message instead of the payload
RaiseUpstreamGeneric(status, text) ==
    /\ response' = HTTPException(502, "upstream error")
    /\ pc' = "done"

\* lines 144-146: raise HTTPException(status_code=502, detail=response.text),
\* which nothing in the handler catches
RaiseUpstream(status, text) ==
    /\ response' = HTTPException(502, text)
    /\ pc' = "done"

\* the provider answered with a status other than 200
ProviderNon200 ==
    /\ pc = "await"
    /\ \E status \in ProviderNon200Statuses, text \in ProviderErrorTexts :
          /\ reply' = [kind |-> "http", status |-> status, text |-> text]
          /\ RaiseUpstream(status, text)
    /\ UNCHANGED <<req, places, idx, formatted_places, kept, places_calls,
                   llm_calls>>
    /\ UNCHANGED pickVars

\* no answer: connection failure, or the 10 s timeout of the client expired.
\* httpx raises; neither fetch_nearby_cafes nor recommendations catches it.
ProviderTransportFailure ==
    /\ pc = "await"
    /\ \E why \in {"timeout", "connect"} :
          reply' = [kind |-> "transport", status |-> 0, text |-> why]
    /\ response' = UnhandledException
    /\ pc' = "done"
    /\ UNCHANGED <<req, places, idx, formatted_places, kept, places_calls,
                   llm_calls>>
    /\ UNCHANGED pickVars

\* status 200: data = response.json(); return data.get("places", [])
Provider200 ==
    /\ pc = "await"
    /\ \E body \in SeqsUpTo(RawPlaces, MaxPlaces) :
          places' = body
    /\ reply' = [kind |-> "http", status |-> 200, text |-> "json"]
    /\ pc' = "normalize"
    /\ UNCHANGED <<req, idx, formatted_places, kept, response, places_calls,
                   llm_calls>>
    /\ UNCHANGED pickVars

(* ---------------- recommendations ---------------- *)
\* one iteration of "for p in places": normalize, append when truthy; an
\* exception out of normalize_place ends the request
NormalizeStep ==
    /\ pc = "normalize"
    /\ idx <= Len(places)
    /\ LET normalized == normalize_place(places[idx], req.lat, req.lng)
       IN  CASE normalized.kind = "cafe" ->
                  /\ formatted_places' = Append(formatted_places, normalized.cafe)
                  /\ kept' = kept \cup {idx}
                  /\ idx' = idx + 1
                  /\ UNCHANGED <<pc, response>>
             [] normalized.kind = "none" ->
                  /\ idx' = idx + 1
                  /\ UNCHANGED <<pc, response, formatted_places, kept>>
             [] normalized.kind = "raise" ->
                  /\ response' = UnhandledException
                  /\ pc' = "done"
                  /\ UNCHANGED <<idx, formatted_places, kept>>
    /\ UNCHANGED <<req, reply, places, places_calls, llm_calls>>
    /\ UNCHANGED pickVars

\* after the loop: formatted_places.sort(...) and the return statement
SortAndReturn ==
    /\ pc = "normalize"
    /\ idx > Len(places)
    /\ formatted_places' = sort_by_distance(formatted_places)
    /\ response' = Recommendations(req.preference, formatted_places')
    /\ pc' = "done"
    /\ UNCHANGED <<req, reply, places, idx, kept, places_calls, llm_calls>>
    /\ UNCHANGED pickVars

Next ==
    \/ Unauthorized
    \/ RejectInvalid
    \/ Accept
    \/ SendSearch
    \/ ProviderNon200
    \/ ProviderTransportFailure
    \/ Provider200
    \/ NormalizeStep
    \/ SortAndReturn

Spec == Init /\ [][Next]_vars

(* ---------------- openai_pick_5 ---------------- *)
\* round(float(x), 1) of a distance in millimetres, in tenths of a metre
Round1(mm) == (mm + 50) \div 100

\* lines 155-164: the compacted view of one candidate
Compact(p) ==
    [place_id |-> p.place_id, name |-> p.name, address |-> p.address,
     rating |-> p.rating, rating_count |-> p.rating_count,
     open_now |-> p.open_now, price_level |-> p.price_level,
     distance_m |-> Round1(p.distance_m)]

\* line 166: PREFERENCE_DICT.get(preference, PREFERENCE_DICT["Best"]).  The
\* default argument is evaluated before get is called, whatever preference is.
RubricLookup(preference) ==
    IF "Best" \notin DOMAIN PREFERENCE_DICT
    THEN [kind |-> "raise", exc |-> "KeyError", rubric |-> ""]
    ELSE [kind |-> "ok", exc |-> "",
          rubric |-> IF preference \in DOMAIN PREFERENCE_DICT
                     THEN PREFERENCE_DICT[preference]
                     ELSE PREFERENCE_DICT["Best"]]

CafePick(id) == [place_id |-> id, why |-> "near and well rated",
                 tags |-> <<"cozy", "quiet", "wifi", "open">>]

\* what the language model may answer: any short list of picks, over the
\* allowed ids and one id that was never offered
ModelOutputs(allowed_ids) ==
    LET ids == { allowed_ids[i] : i \in DOMAIN allowed_ids } \cup {Str("zz")}
    IN  SeqsUpTo({ CafePick(id) : id \in ids }, MaxPickPlaces + 1)

\* the candidate lists: Cafes as normalize_place builds them
Cafes == { normalize_place(p, 0, 0).cafe : p \in WellFormedPlaces }

PickPreferences == Preference \cup {"Best", "cozy"}

InitPick ==
    /\ req = [lat |-> 0, lng |-> 0, preference |-> "best",
              credentials |-> <<"user", "pass">>]
    /\ pc = "idle"
    /\ HandlerIdle
    /\ pick_pc = "called"
    /\ pick_preference \in PickPreferences
    /\ pick_places \in SeqsUpTo(Cafes, MaxPickPlaces)
    /\ compacted_places = <<>>
    /\ pick_result = NoPickResult

\* the whole of openai_pick_5, which has no suspension point: compaction,
\* rubric lookup, then one structured-output request whose parsed answer is
\* returned as it is
openai_pick_5 ==
    /\ pick_pc = "called"
    /\ compacted_places' = [i \in DOMAIN pick_places |-> Compact(pick_places[i])]
    /\ LET rubric == RubricLookup(pick_preference)
           allowed_ids == [i \in DOMAIN pick_places |-> compacted_places'[i].place_id]
       IN  IF rubric.kind = "raise"
           THEN /\ pick_result' = [kind |-> "raise", exc |-> rubric.exc,
                                   rubric |-> "", asked |-> FALSE,
                                   output |-> <<>>, picks |-> <<>>]
                /\ UNCHANGED llm_calls
           ELSE /\ llm_calls' = llm_calls + 1
                /\ \E output \in ModelOutputs(allowed_ids) :
                      pick_result' = [kind |-> "return", exc |-> "",
                                      rubric |-> rubric.rubric, asked |-> TRUE,
                                      output |-> output, picks |-> output]
    /\ pick_pc' = "done"
    /\ UNCHANGED <<pc, req, reply, places, idx, formatted_places, kept,
                   response, places_calls>>
    /\ UNCHANGED <<pick_preference, pick_places>>

NextPick == openai_pick_5

SpecPick == InitPick /\ [][NextPick]_vars

(* ======================= properties ======================= *)
\* a required leaf that is absent, null, the empty string or zero
FieldMissing(v) ==
    \/ v.k \in {"absent", "null"}
    \/ (v.k = "str" /\ v.s = "")
    \/ (v.k = "num" /\ v.n = 0)

\* a required leaf that is absent, null or the empty string; zero is a value
FieldNotThere(v) ==
    \/ v.k \in {"absent", "null"}
    \/ (v.k = "str" /\ v.s = "")

NameOf(p) == IF p.displayName.k = "obj" THEN p.displayName.text ELSE Absent
LatOf(p) == IF p.location.k = "obj" THEN p.location.latitude ELSE Absent
LngOf(p) == IF p.location.k = "obj" THEN p.location.longitude ELSE Absent

LacksRequired(p) ==
    \/ FieldMissing(p.id) \/ FieldMissing(NameOf(p))
    \/ FieldMissing(p.shortFormattedAddress)
    \/ FieldMissing(LatOf(p)) \/ FieldMissing(LngOf(p))

HasAllRequired(p) ==
    /\ ~FieldNotThere(p.id) /\ ~FieldNotThere(NameOf(p))
    /\ ~FieldNotThere(p.shortFormattedAddress)
    /\ ~FieldNotThere(LatOf(p)) /\ ~FieldNotThere(LngOf(p))

Authenticated == req.credentials = <<"user", "pass">>

IsSorted(cafes) ==
    \A i, j \in DOMAIN cafes : i < j => cafes[i].distance_m <= cafes[j].distance_m

\* the Cafes of the provider positions in kept, in provider order
RECURSIVE KeptCafes(_)
KeptCafes(n) ==
    IF n = 0 THEN <<>>
    ELSE IF n \in kept
         THEN Append(KeptCafes(n - 1), normalize_place(places[n], req.lat, req.lng).cafe)
         ELSE KeptCafes(n - 1)

C2_ZeroCoordinateYieldsCafe ==
    \A i \in DOMAIN places :
       ( /\ i < idx
         /\ HasAllRequired(places[i])
         /\ \/ (LatOf(places[i]) = Num(0) /\ LngOf(places[i]) # Num(0))
            \/ (LngOf(places[i]) = Num(0) /\ LatOf(places[i]) # Num(0)) )
       => i \in kept

\* C3: the preview of a success response is sorted non-decreasing by
\* distance_m and is a stable permutation of the normalized, non-rejected
\* records: same length, and for every distance the Cafes at that distance
\* appear in the order in which the provider returned them.
C3_PreviewStableSorted ==
    response.kind = "ok" =>
       LET preview == response.preview
           accepted == KeptCafes(Len(places))
           At(cafes, d) == SelectSeq(cafes, LAMBDA c : c.distance_m = d)
       IN  /\ IsSorted(preview)
           /\ Len(preview) = Len(accepted)
           /\ \A i \in DOMAIN accepted :
                 At(preview, accepted[i].distance_m) = At(accepted, accepted[i].distance_m)

C3_Witness ==
    /\ response.kind = "ok"
    /\ Len(response.preview) = 2
    /\ response.preview[1].distance_m = response.preview[2].distance_m
    /\ response.preview[1].place_id # response.preview[2].place_id

\* C4: a non-success status from the places provider ends the request with
\* an HTTPException of status 502 whose detail is the provider's response
\* text; nothing is normalized or ranked and no preview is returned.
C4_Non200Is502WithProviderText ==
    (reply.kind = "http" /\ reply.status >= 400) =>
       /\ pc = "done"
       /\ response.kind = "http_exception"
       /\ response.status = 502
       /\ response.detail = reply.text
       /\ places = <<>> /\ idx = 1 /\ formatted_places = <<>> /\ kept = {}

C4_Witness ==
    /\ reply.kind = "http" /\ reply.status = 429
    /\ reply.text = "RESOURCE_EXHAUSTED"
    /\ response.status = 502

\* C5: a transport failure or timeout of the places provider call fails the
\* request with the gateway/upstream error kind used for non-success
\* provider responses, not with an unclassified internal error.
C5_TransportFailureIsUpstreamError ==
    reply.kind = "transport" =>
       /\ response.kind = "http_exception"
       /\ response.status \in {502, 504}

\* C6: for each of study, friendly, best, open and busy the rubric lookup of
\* openai_pick_5 yields the non-empty PREFERENCE_DICT entry of that
\* preference without raising; for any other value it signals an error.
C6_RubricForEveryPreference ==
    pick_pc = "done" =>
       IF pick_preference \in {"study", "friendly", "best", "open", "busy"}
       THEN /\ pick_result.exc # "KeyError"
            /\ pick_result.rubric = PREFERENCE_DICT[pick_preference]
            /\ pick_result.rubric # ""
       ELSE pick_result.kind = "raise"

Min(a, b) == IF a < b THEN a ELSE b

ValidPicks(picks, candidates) ==
    /\ Len(picks) = Min(5, Len(candidates))
    /\ \A i \in DOMAIN picks :
          \E j \in DOMAIN candidates : picks[i].place_id = candidates[j].place_id
    /\ \A i, j \in DOMAIN picks : i # j => picks[i].place_id # picks[j].place_id

\* C7: given a valid preference, openai_pick_5 ends in one of two ways: it
\* returns exactly min(5, number of candidates) picks, each a candidate's
\* place_id, none twice; or it raises because the language model's output
\* broke that contract.
C7_PicksValidOrModelAtFault ==
    (pick_pc = "done" /\ pick_preference \in {"study", "friendly", "best", "open", "busy"}) =>
       \/ /\ pick_result.kind = "return"
          /\ ValidPicks(pick_result.picks, pick_places)
       \/ /\ pick_result.kind = "raise"
          /\ pick_result.asked
          /\ ~ValidPicks(pick_result.output, pick_places)

InvalidInput ==
    \/ req.lat < -90 \/ req.lat > 90
    \/ req.lng < -180 \/ req.lng > 180
    \/ req.preference \notin {"study", "friendly", "best", "open", "busy"}

\* C8: a request with lat outside [-90, 90], lng outside [-180, 180] or an
\* unknown preference never gets past the request boundary: no places or
\* language-model request is ever sent for it, and an authenticated one ends
\* with the validation error.
C8_InvalidRejectedBeforeAnyCall ==
    InvalidInput =>
       /\ places_calls = 0 /\ llm_calls = 0
       /\ pc \in {"request", "done"}
       /\ reply = NoReply
       /\ pc = "done" =>
             /\ response.status \in {401, 422}
             /\ Authenticated => response.kind = "validation_error"

C8_Witness ==
    /\ req.lat = 95 /\ req.preference = "best" /\ req.lng = 0
    /\ Authenticated
    /\ pc = "done"
    /\ response.kind = "validation_error"

\* C9: when the provider answers 200 and some record lacks a required field,
\* the request succeeds, echoes the preference, count is the length of
\* preview, and that is the number of records having all required fields.
C9_DefectiveRecordsOnlyShrinkResult ==
    ( /\ pc = "done"
      /\ reply.kind = "http" /\ reply.status = 200
      /\ \E i \in DOMAIN places : ~HasAllRequired(places[i]) )
    => /\ response.kind = "ok"
       /\ response.preference = req.preference
       /\ response.count = Len(response.preview)
       /\ response.count = Cardinality({ i \in DOMAIN places : HasAllRequired(places[i]) })

\* C10: one validated, authenticated request sends exactly one search
\* request, also when the fetch fails; records are normalized only after the
\* provider's 200 answer has arrived, and the sorted response is built only
\* after every record has been normalized.
C10_SingleFetchThenNormalizeThenSort ==
    /\ places_calls <= 1
    /\ pc \in {"request", "fetch"} => places_calls = 0
    /\ (pc \in {"await", "normalize"} \/ reply # NoReply) => places_calls = 1
    /\ (pc = "done" /\ Authenticated /\ ~InvalidInput) => places_calls = 1
    /\ (idx > 1 \/ kept # {} \/ formatted_places # <<>>) =>
          (reply.kind = "http" /\ reply.status = 200)
    /\ response.kind = "ok" =>
          /\ reply.kind = "http" /\ reply.status = 200
          /\ idx = Len(places) + 1

C10_Witness ==
    /\ pc = "done"
    /\ reply.kind = "transport"
    /\ places_calls = 1

====
